---- MODULE Spec2Model ----
(***************************************************************************)
(* A model of clicks_email_report.py: the daily per-domain click report.   *)
(* One run deletes the stats of the report date, fans one process_domain   *)
(* task per sheet row out over a thread pool, collects the results with    *)
(* as_completed, stamps and inserts them, folds them into the `domains`    *)
(* aggregate and renders the aggregate with build_html.                    *)
(*                                                                         *)
(* Encodings.  A date string is the sequence of its characters.  A         *)
(* datetime is a number of ticks since 2024-05-01 00:00 UTC, TicksPerDay   *)
(* ticks to the day; all modelled dates lie in May 2024.  A url is the     *)
(* sequence of its "/"-separated pieces.  An insertion-ordered dict is a   *)
(* sequence of entries.                                                    *)
(***************************************************************************)
EXTENDS Integers, Sequences, FiniteSets, TLC

VARIABLES REPORT_DATE, domains_rows, pc, nsub, tasks, all_rows, stats_col,
          domains, blocks, run, prev

vars == <<REPORT_DATE, domains_rows, pc, nsub, tasks, all_rows, stats_col,
          domains, blocks, run, prev>>

\* ---------------------------------------------------------------- bounds
MaxTenants == 2
TicksPerDay == 2
MaxRuns == 2

\* ThreadPoolExecutor(max_workers=8)
MaxWorkers == 8

\* ------------------------------------------------------- sequence helpers
Range(s) == {s[i] : i \in 1..Len(s)}

\* All the orders in which a finite set can be listed.
Orderings(S) ==
    {s \in [1..Cardinality(S) -> S] : \A i, j \in 1..Cardinality(S) : s[i] = s[j] => i = j}

\* ------------------------------------------------------------ date argument
Digit(c) ==
    CASE c = "0" -> 0 [] c = "1" -> 1 [] c = "2" -> 2 [] c = "3" -> 3 [] c = "4" -> 4
      [] c = "5" -> 5 [] c = "6" -> 6 [] c = "7" -> 7 [] c = "8" -> 8 [] c = "9" -> 9

RECURSIVE Num(_)
Num(s) == IF s = <<>> THEN 0 ELSE 10 * Num(SubSeq(s, 1, Len(s) - 1)) + Digit(s[Len(s)])

\* The fields of s between the "-" characters.
RECURSIVE SplitDash(_)
SplitDash(s) ==
    IF \A i \in 1..Len(s) : s[i] # "-" THEN <<s>>
    ELSE LET k == CHOOSE i \in 1..Len(s) : s[i] = "-" /\ \A j \in 1..(i - 1) : s[j] # "-"
         IN  <<SubSeq(s, 1, k - 1)>> \o SplitDash(SubSeq(s, k + 1, Len(s)))

\* datetime.strptime(s, "%Y-%m-%d"): %m and %d take one or two digits.
strptime(s) ==
    LET f == SplitDash(s) IN [y |-> Num(f[1]), m |-> Num(f[2]), d |-> Num(f[3])]

\* The date arguments of the modelled runs: "2024-05-02", and the same day
\* written without zero padding, which strptime accepts as well.
DateArgs ==
    { <<"2", "0", "2", "4", "-", "0", "5", "-", "0", "2">>,
      <<"2", "0", "2", "4", "-", "5", "-", "2">> }

MIN_DT == (strptime(REPORT_DATE).d - 1) * TicksPerDay
MAX_DT == MIN_DT + TicksPerDay

DigitChar(n) ==
    CASE n = 0 -> "0" [] n = 1 -> "1" [] n = 2 -> "2" [] n = 3 -> "3" [] n = 4 -> "4"
      [] n = 5 -> "5" [] n = 6 -> "6" [] n = 7 -> "7" [] n = 8 -> "8" [] n = 9 -> "9"

\* {"$substr": ["$createdDt", 0, 10]}: the first ten characters of the ISO
\* form of a datetime, "2024-05-DD" with the day zero-padded.
IsoDate(t) ==
    LET day == (t \div TicksPerDay) + 1
    IN  <<"2", "0", "2", "4", "-", "0", "5", "-">>
            \o <<DigitChar(day \div 10), DigitChar(day % 10)>>

\* ------------------------------------------------------------- sheet rows
\* Rows of the "Domains" sheet after the normalisation loop (every value
\* stripped): two plain tenants, a row without Domain, a row without
\* Database, and a second row for a.com with another type and an EmployerId.
RowPool ==
    { [Domain |-> "a.com", Database |-> "dbA", Domain_Type |-> "Programmatic", EmployerId |-> ""],
      [Domain |-> "b.com", Database |-> "dbB", Domain_Type |-> "organic", EmployerId |-> ""],
      [Domain |-> "", Database |-> "dbA", Domain_Type |-> "organic", EmployerId |-> ""],
      [Domain |-> "c.com", Database |-> "", Domain_Type |-> "Direct Apply", EmployerId |-> ""],
      [Domain |-> "a.com", Database |-> "dbB", Domain_Type |-> "organic", EmployerId |-> "emp1"] }

RowLists == UNION {[1..n -> RowPool] : n \in 0..MaxTenants}

\* ------------------------------------------------------ userAnalytics events
Null == "<null>"
NoUrl == <<>>

Ev(company, companyName, url, ip, t, bot, emp) ==
    [company |-> company, companyName |-> companyName, url |-> url, ipAddress |-> ip,
     createdDt |-> t, isBot |-> bot, browserType |-> "Chrome", deviceType |-> "Desktop",
     isFromGoogle |-> TRUE, employerId |-> emp]

AcmeUrl == <<"https:", "", "jobs.acme.com", "apply">>
GlobexUrl == <<"https:", "", "globex.com">>

eIn1 == Ev("Acme", Null, AcmeUrl, "10.0.0.1", TicksPerDay + 1, FALSE, "emp1")
eIn2 == Ev("Acme", Null, AcmeUrl, "10.0.0.2", TicksPerDay + 1, FALSE, "emp2")
eNoUrl == Ev(Null, "Acme", NoUrl, "10.0.0.1", TicksPerDay + 1, FALSE, "emp1")
eBadUrl == Ev(Null, Null, <<"not-a-url">>, "10.0.0.3", TicksPerDay + 1, FALSE, "emp1")
eGlobex == Ev("Globex", Null, GlobexUrl, "10.0.0.1", TicksPerDay + 1, FALSE, "emp1")
eMin == Ev("Globex", Null, GlobexUrl, "10.0.0.2", TicksPerDay, FALSE, "emp1")
eMax == Ev("Globex", Null, GlobexUrl, "10.0.0.3", 2 * TicksPerDay, FALSE, "emp1")
ePrev == Ev("Globex", Null, GlobexUrl, "10.0.0.4", TicksPerDay - 1, FALSE, "emp1")
eBot == Ev("Globex", Null, GlobexUrl, "10.0.0.5", TicksPerDay + 1, TRUE, "emp1")
eUnknownBrowser == [eGlobex EXCEPT !.browserType = "Unknown", !.ipAddress = "10.0.0.6"]
eNotGoogle == [eGlobex EXCEPT !.isFromGoogle = FALSE, !.ipAddress = "10.0.0.7"]

\* The contents a tenant's userAnalytics collection may have when queried.
StoreStates ==
    { {},
      {eIn1, eIn2, eNoUrl},
      {eIn1, eBadUrl, eMin, eMax, ePrev, eBot, eUnknownBrowser, eNotGoogle} }

\* ---------------------------------------------------------------- helpers
\* to_int: int(v), and 0 when int(v) raises.
to_int(v) == IF v \in Int THEN v ELSE 0

\* str.lower and str.strip on the type strings of the sheet.
Lower(s) ==
    CASE s = "Programmatic" -> "programmatic"
      [] s = "Direct Apply" -> "direct apply"
      [] OTHER -> s

Strip(s) ==
    CASE s = " programmatic " -> "programmatic"
      [] OTHER -> s

normalize_type(t) == Lower(Strip(t))

TableTypes == {"programmatic", "direct apply", "direct_apply", "direct-apply"}

\* is_table_domain taking every type that is not empty.
is_table_domain_any(domain_type) == normalize_type(domain_type) # ""

is_table_domain(domain_type) == normalize_type(domain_type) \in TableTypes

\* -------------------------------------------------------------- fetch_views
\* The $match stage.
Match(e, employer_id) ==
    /\ e.isBot = FALSE
    /\ e.browserType # "Unknown"
    /\ e.deviceType # "Unknown"
    /\ e.isFromGoogle = TRUE
    /\ e.createdDt > MIN_DT
    /\ e.createdDt < MAX_DT
    /\ (employer_id # "" => e.employerId = employer_id)

\* $ifNull: ["$company", {$ifNull: ["$companyName", "Unknown"]}]
CompanyOf(e) ==
    IF e.company # Null THEN e.company
    ELSE IF e.companyName # Null THEN e.companyName ELSE "Unknown"

\* $arrayElemAt: [{$split: [{$ifNull: ["$url", ""]}, "/"]}, 2], "" when absent.
EndUrlDomain(e) ==
    LET parts == IF e.url = NoUrl THEN <<"">> ELSE e.url
    IN  IF Len(parts) >= 3 THEN parts[3] ELSE ""

GroupKey(e) == <<CompanyOf(e), EndUrlDomain(e), IsoDate(e.createdDt)>>

\* The $group and the final $project: one record per (Company, End, Date).
ViewRecords(domain, evs, employer_id, domain_type) ==
    LET hit == {e \in evs : Match(e, employer_id)}
    IN  { [Date |-> k[3], Company |-> k[1], End_Url_Domain |-> k[2],
           ViewsCount |-> Cardinality({e \in hit : GroupKey(e) = k}),
           UniqueIpCount |-> Cardinality({e.ipAddress : e \in {x \in hit : GroupKey(x) = k}}),
           Domain |-> domain, Domain_Type |-> domain_type] : k \in {GroupKey(e) : e \in hit} }

\* list(col.aggregate(...)): the groups, in an order $group does not fix.
fetch_views(domain, evs, employer_id, domain_type) ==
    Orderings(ViewRecords(domain, evs, employer_id, domain_type))

\* -------------------------------------------------------------- aggregation
\* The position of the entry named k in an insertion-ordered dict, 0 if none.
IndexOf(d, k) ==
    IF \E i \in 1..Len(d) : d[i].name = k
    THEN CHOOSE i \in 1..Len(d) : d[i].name = k
    ELSE 0

\* domains[k]: the defaultdict adds a fresh entry, at the end, on a miss.
Touch(d, k) ==
    IF IndexOf(d, k) # 0 THEN d
    ELSE Append(d, [name |-> k, type |-> "", clicks |-> 0, ips |-> 0, rows |-> <<>>])

\* d["rows"][key]: the inner defaultdict.
TouchRow(rows, key) ==
    IF \E i \in 1..Len(rows) : rows[i].name = key THEN rows
    ELSE Append(rows, [name |-> key, clicks |-> 0, ips |-> 0])

\* SetShell without the test of r["Domain"].
SetShellAny(d, r) ==
    LET t == Touch(d, r.Domain)
    IN  [t EXCEPT ![IndexOf(t, r.Domain)].type = r.Domain_Type]

\* domains[r["Domain"]]["type"] = r["Domain Type"], for a row with a Domain.
SetShell(d, r) ==
    IF r.Domain = "" THEN d
    ELSE LET t == Touch(d, r.Domain)
         IN  [t EXCEPT ![IndexOf(t, r.Domain)].type = r.Domain_Type]

RECURSIVE Shells(_, _)
Shells(d, rs) == IF rs = <<>> THEN d ELSE Shells(SetShell(d, Head(rs)), Tail(rs))

\* FoldRecord with the domain totals assigned instead of added to.
FoldRecordAssign(d, r) ==
    LET t == Touch(d, r.Domain)
        i == IndexOf(t, r.Domain)
        clicks == to_int(r.ViewsCount)
        ips == to_int(r.UniqueIpCount)
        key == <<r.Company, r.End_Url_Domain>>
        rows == TouchRow(t[i].rows, key)
        j == IndexOf(rows, key)
    IN  [t EXCEPT ![i].clicks = clicks,
                  ![i].ips = ips,
                  ![i].rows = [rows EXCEPT ![j].clicks = @ + clicks, ![j].ips = @ + ips]]

\* The body of the fold loop for one record.
FoldRecord(d, r) ==
    LET t == Touch(d, r.Domain)
        i == IndexOf(t, r.Domain)
        clicks == to_int(r.ViewsCount)
        ips == to_int(r.UniqueIpCount)
        key == <<r.Company, r.End_Url_Domain>>
        rows == TouchRow(t[i].rows, key)
        j == IndexOf(rows, key)
    IN  [t EXCEPT ![i].clicks = @ + clicks,
                  ![i].ips = @ + ips,
                  ![i].rows = [rows EXCEPT ![j].clicks = @ + clicks, ![j].ips = @ + ips]]

RECURSIVE Fold(_, _)
Fold(d, rs) == IF rs = <<>> THEN d ELSE Fold(FoldRecord(d, Head(rs)), Tail(rs))

\* ---------------------------------------------------------------- build_html
\* InsertDesc putting x before its equals, as sorted(...)[::-1] would.
InsertDescFront(sorted, x) ==
    LET k == Cardinality({i \in 1..Len(sorted) : sorted[i].clicks > x.clicks})
    IN  SubSeq(sorted, 1, k) \o <<x>> \o SubSeq(sorted, k + 1, Len(sorted))

\* x put into a list sorted by descending clicks, behind its equals.
InsertDesc(sorted, x) ==
    LET k == Cardinality({i \in 1..Len(sorted) : sorted[i].clicks >= x.clicks})
    IN  SubSeq(sorted, 1, k) \o <<x>> \o SubSeq(sorted, k + 1, Len(sorted))

\* sorted(items, key=clicks, reverse=True): stable, equals keep their order.
RECURSIVE SortDesc(_)
SortDesc(s) ==
    IF s = <<>> THEN <<>>
    ELSE InsertDesc(SortDesc(SubSeq(s, 1, Len(s) - 1)), s[Len(s)])

\* TableRows without the `if not end: continue`.
RECURSIVE TableRowsAll(_)
TableRowsAll(items) ==
    IF items = <<>> THEN <<>>
    ELSE LET x == Head(items)
         IN  <<[company |-> x.name[1], end |-> x.name[2],
                clicks |-> x.clicks, ips |-> x.ips]>>
             \o TableRowsAll(Tail(items))

\* The <tr> elements of a table: the rows by descending clicks, those
\* without an End Url Domain skipped.
RECURSIVE TableRows(_)
TableRows(items) ==
    IF items = <<>> THEN <<>>
    ELSE LET x == Head(items)
         IN  (IF x.name[2] = "" THEN <<>>
              ELSE <<[company |-> x.name[1], end |-> x.name[2],
                      clicks |-> x.clicks, ips |-> x.ips]>>)
             \o TableRows(Tail(items))

\* One block of the report: the entry's key, type and totals, and, for a
\* table domain, the breakdown table.
Block(d) ==
    IF is_table_domain(d.type)
    THEN [key |-> d.name, type |-> d.type, clicks |-> d.clicks, ips |-> d.ips,
          table |-> TRUE, rows |-> TableRows(SortDesc(d.rows))]
    ELSE [key |-> d.name, type |-> d.type, clicks |-> d.clicks, ips |-> d.ips,
          table |-> FALSE, rows |-> <<>>]

RECURSIVE Blocks(_)
Blocks(items) == IF items = <<>> THEN <<>> ELSE <<Block(Head(items))>> \o Blocks(Tail(items))

build_html(d) == Blocks(SortDesc(d))

\* ------------------------------------------------------------------ state
\* pc: the main thread's place.  "delete": before line 198; "fanout": in the
\* with block (submitting, then collecting); "raising": f.result() raised
\* and the with block is shutting the pool down; "crashed": the exception
\* left the script; "insert", "shells", "fold", "render": before lines 206,
\* 222, 226 and the build_html call; "done".
\* tasks[i]: the future of domains_rows[i].  st is "new" until submitted,
\* "queued", then the line of process_domain a worker has reached, then
\* "done" or "failed"; evs is the collection the query scanned, out the
\* returned list, collected whether as_completed has yielded it.
NewTask == [st |-> "new", evs |-> {}, out |-> <<>>, collected |-> FALSE]

Tenants == 1..Len(domains_rows)

Finished(i) == tasks[i].st \in {"done", "failed"}

Running == {i \in Tenants : tasks[i].st \in {"l180", "l183", "l187", "l188"}}

Init ==
    /\ REPORT_DATE \in DateArgs
    /\ domains_rows \in RowLists
    /\ pc = "delete"
    /\ nsub = 0
    /\ tasks = [i \in 1..Len(domains_rows) |-> NewTask]
    /\ all_rows = <<>>
    /\ stats_col = <<>>
    /\ domains = <<>>
    /\ blocks = <<>>
    /\ run = 1
    /\ prev = [date |-> <<>>, done |-> FALSE]

\* ------------------------------------------------------------ main thread
\* stats_col.delete_many({"Date": REPORT_DATE})
DeleteMany ==
    /\ pc = "delete"
    /\ stats_col' = SelectSeq(stats_col, LAMBDA r : r.Date # REPORT_DATE)
    /\ pc' = "fanout"
    /\ UNCHANGED <<REPORT_DATE, domains_rows, nsub, tasks, all_rows, domains, blocks, run, prev>>

\* ex.submit(process_domain, r), for the next row of domains_rows.
Submit ==
    /\ pc = "fanout"
    /\ nsub < Len(domains_rows)
    /\ nsub' = nsub + 1
    /\ tasks' = [tasks EXCEPT ![nsub + 1].st = "queued"]
    /\ UNCHANGED <<REPORT_DATE, domains_rows, pc, all_rows, stats_col, domains, blocks, run, prev>>

\* for f in as_completed(futures): all_rows.extend(f.result()); f.result()
\* raises what the task raised.
Collect(i) ==
    /\ pc = "fanout"
    /\ nsub = Len(domains_rows)
    /\ Finished(i)
    /\ ~tasks[i].collected
    /\ IF tasks[i].st = "done"
       THEN /\ all_rows' = all_rows \o tasks[i].out
            /\ tasks' = [tasks EXCEPT ![i].collected = TRUE]
            /\ pc' = pc
       ELSE /\ pc' = "raising"
            /\ UNCHANGED <<all_rows, tasks>>
    /\ UNCHANGED <<REPORT_DATE, domains_rows, nsub, stats_col, domains, blocks, run, prev>>

\* The loop left after the first future.
FirstCollected == \A i \in 1..Len(domains_rows) : \E j \in 1..Len(domains_rows) : tasks[j].collected

\* as_completed is exhausted when it has yielded every future.
AllCollected == \A i \in Tenants : tasks[i].collected

\* The end of the with block: the loop is over and the pool shut down.
Join ==
    /\ pc = "fanout"
    /\ nsub = Len(domains_rows)
    /\ AllCollected
    /\ pc' = "insert"
    /\ UNCHANGED <<REPORT_DATE, domains_rows, nsub, tasks, all_rows, stats_col, domains, blocks, run, prev>>

\* The with block left by an exception: shutdown(wait=True) waits for the
\* tasks still running, then the exception ends the script.
Shutdown ==
    /\ pc = "raising"
    /\ \A i \in Tenants : Finished(i)
    /\ pc' = "crashed"
    /\ UNCHANGED <<REPORT_DATE, domains_rows, nsub, tasks, all_rows, stats_col, domains, blocks, run, prev>>

\* r["InsertedAt"] = datetime.now(timezone.utc); the clock reads the run.
Stamp(r) == r @@ [InsertedAt |-> run]

StampAll(rs) == [i \in 1..Len(rs) |-> Stamp(rs[i])]

\* Lines 206-210: stamp every record, insert_many unless the list is empty.
Insert ==
    /\ pc = "insert"
    /\ all_rows' = StampAll(all_rows)
    /\ stats_col' = IF all_rows # <<>> THEN stats_col \o all_rows' ELSE stats_col
    /\ pc' = "shells"
    /\ UNCHANGED <<REPORT_DATE, domains_rows, nsub, tasks, domains, blocks, run, prev>>

\* Lines 215-224: the empty defaultdict, then an entry per row with a Domain.
BuildShells ==
    /\ pc = "shells"
    /\ domains' = Shells(<<>>, domains_rows)
    /\ pc' = "fold"
    /\ UNCHANGED <<REPORT_DATE, domains_rows, nsub, tasks, all_rows, stats_col, blocks, run, prev>>

\* Lines 226-237.
FoldRows ==
    /\ pc = "fold"
    /\ domains' = Fold(domains, all_rows)
    /\ pc' = "render"
    /\ UNCHANGED <<REPORT_DATE, domains_rows, nsub, tasks, all_rows, stats_col, blocks, run, prev>>

\* build_html, as called for a recipient.
Render ==
    /\ pc = "render"
    /\ blocks' = build_html(domains)
    /\ pc' = "done"
    /\ UNCHANGED <<REPORT_DATE, domains_rows, nsub, tasks, all_rows, stats_col, domains, run, prev>>

\* ---------------------------------------------------------- pool workers
\* A worker thread takes a queued task.
WorkerStart(i) ==
    /\ tasks[i].st = "queued"
    /\ Cardinality(Running) < MaxWorkers
    /\ tasks' = [tasks EXCEPT ![i].st = "l180"]
    /\ UNCHANGED <<REPORT_DATE, domains_rows, pc, nsub, all_rows, stats_col, domains, blocks, run, prev>>

\* not row["Domain"] or not row["Database"]
SkipRowAnd(row) == row.Domain = "" /\ row.Database = ""

SkipRow(row) == row.Domain = "" \/ row.Database = ""

\* if not row["Domain"] or not row["Database"]: return []
CheckRow(i) ==
    /\ tasks[i].st = "l180"
    /\ tasks' = IF SkipRow(domains_rows[i])
                THEN [tasks EXCEPT ![i].st = "done"]
                ELSE [tasks EXCEPT ![i].st = "l183"]
    /\ UNCHANGED <<REPORT_DATE, domains_rows, pc, nsub, all_rows, stats_col, domains, blocks, run, prev>>

\* record = domains_col.find_one(...); if not record: return []
Lookup(i) ==
    /\ tasks[i].st = "l183"
    /\ \E found \in BOOLEAN :
          tasks' = [tasks EXCEPT ![i].st = IF found THEN "l187" ELSE "done"]
    /\ UNCHANGED <<REPORT_DATE, domains_rows, pc, nsub, all_rows, stats_col, domains, blocks, run, prev>>

\* db = connect_mongo(record, row["Database"]): the ping may raise.
Connect(i) ==
    /\ tasks[i].st = "l187"
    /\ \E ok \in BOOLEAN :
          tasks' = [tasks EXCEPT ![i].st = IF ok THEN "l188" ELSE "failed"]
    /\ UNCHANGED <<REPORT_DATE, domains_rows, pc, nsub, all_rows, stats_col, domains, blocks, run, prev>>

\* return fetch_views(...): the aggregate may raise.
Query(i) ==
    /\ tasks[i].st = "l188"
    /\ \/ tasks' = [tasks EXCEPT ![i].st = "failed"]
       \/ \E evs \in StoreStates :
            \E out \in fetch_views(domains_rows[i].Domain, evs,
                                   domains_rows[i].EmployerId, domains_rows[i].Domain_Type) :
               tasks' = [tasks EXCEPT ![i].st = "done", ![i].evs = evs, ![i].out = out]
    /\ UNCHANGED <<REPORT_DATE, domains_rows, pc, nsub, all_rows, stats_col, domains, blocks, run, prev>>

\* --------------------------------------------------------------- the script
Next ==
    \/ DeleteMany
    \/ Submit
    \/ \E i \in Tenants : WorkerStart(i)
    \/ \E i \in Tenants : CheckRow(i)
    \/ \E i \in Tenants : Lookup(i)
    \/ \E i \in Tenants : Connect(i)
    \/ \E i \in Tenants : Query(i)
    \/ \E i \in Tenants : Collect(i)
    \/ Join
    \/ Shutdown
    \/ Insert
    \/ BuildShells
    \/ FoldRows
    \/ Render

Spec == Init /\ [][Next]_vars

\* The script run again, for a date given anew, on the same sheet and the
\* same stats collection.
Rerun ==
    /\ pc \in {"done", "crashed"}
    /\ run < MaxRuns
    /\ REPORT_DATE' \in DateArgs
    /\ run' = run + 1
    /\ prev' = [date |-> REPORT_DATE, done |-> (pc = "done")]
    /\ pc' = "delete"
    /\ nsub' = 0
    /\ tasks' = [i \in Tenants |-> NewTask]
    /\ all_rows' = <<>>
    /\ domains' = <<>>
    /\ blocks' = <<>>
    /\ UNCHANGED <<domains_rows, stats_col>>

NextRerun == Next \/ Rerun

SpecRerun == Init /\ [][NextRerun]_vars

\* ------------------------------------------------------------- properties
RECURSIVE SumSeq(_)
SumSeq(s) == IF s = <<>> THEN 0 ELSE Head(s) + SumSeq(Tail(s))

RECURSIVE MapClicks(_)
MapClicks(s) == IF s = <<>> THEN <<>> ELSE <<Head(s).clicks>> \o MapClicks(Tail(s))

RECURSIVE MapIps(_)
MapIps(s) == IF s = <<>> THEN <<>> ELSE <<Head(s).ips>> \o MapIps(Tail(s))

RECURSIVE SumViews(_, _)
SumViews(rs, dom) ==
    IF rs = <<>> THEN 0
    ELSE (IF Head(rs).Domain = dom THEN Head(rs).ViewsCount ELSE 0) + SumViews(Tail(rs), dom)

RECURSIVE SumUnique(_, _)
SumUnique(rs, dom) ==
    IF rs = <<>> THEN 0
    ELSE (IF Head(rs).Domain = dom THEN Head(rs).UniqueIpCount ELSE 0) + SumUnique(Tail(rs), dom)

Aggregated == pc \in {"render", "done"}

EmptyConfig(i) == domains_rows[i].Domain = "" \/ domains_rows[i].Database = ""

\* Every future of the run exists and has completed.
BarrierPassed == nsub = Len(domains_rows) /\ \A i \in Tenants : Finished(i)

\* C1: when a tenant's task fails, the fan-out does not raise, the run goes
\* on to persistence and aggregation, and the records of every successful
\* tenant are in all_rows and counted in the aggregate.
C1_FailureIsolation ==
    (\E i \in Tenants : tasks[i].st = "failed") =>
        /\ pc \notin {"raising", "crashed"}
        /\ pc = "done" =>
              \A j \in Tenants : \A r \in Range(tasks[j].out) :
                  /\ Stamp(r) \in Range(all_rows)
                  /\ \E k \in 1..Len(domains) :
                        domains[k].name = r.Domain /\ domains[k].clicks >= r.ViewsCount

\* C2: after two complete runs, one after the other, for the same date, the
\* stats collection holds for that date exactly the records of the second.
C2_ReplaceByDate ==
    (pc = "done" /\ run >= 2 /\ prev.done /\ strptime(prev.date) = strptime(REPORT_DATE)) =>
        SelectSeq(stats_col, LAMBDA r : strptime(r.Date) = strptime(REPORT_DATE)) = all_rows

C4_Additivity ==
    Aggregated =>
        \A k \in 1..Len(domains) :
            /\ domains[k].clicks = SumSeq(MapClicks(domains[k].rows))
            /\ domains[k].clicks = SumViews(all_rows, domains[k].name)
            /\ domains[k].ips = SumSeq(MapIps(domains[k].rows))

C4_Witness ==
    /\ Aggregated
    /\ \E k \in 1..Len(domains) :
          /\ Len(domains[k].rows) >= 2
          /\ domains[k].clicks >= 4
          /\ \E j \in 1..Len(domains[k].rows) : domains[k].rows[j].clicks >= 3

FirstRow(dom) == CHOOSE i \in Tenants :
                    domains_rows[i].Domain = dom /\ \A j \in 1..(i - 1) : domains_rows[j].Domain # dom

\* C5: the blocks are in non-increasing order of clicks, and blocks with
\* equal clicks in the order in which their domains first appear in the
\* sheet, in whatever order the tasks completed.
C5_RenderOrder ==
    pc = "done" =>
        \A i, j \in 1..Len(blocks) : i < j =>
            /\ blocks[i].clicks >= blocks[j].clicks
            /\ blocks[i].clicks = blocks[j].clicks =>
                  FirstRow(blocks[i].key) < FirstRow(blocks[j].key)

C5_Witness ==
    /\ pc = "done"
    /\ Len(blocks) = 2
    /\ blocks[1].clicks = blocks[2].clicks
    /\ blocks[1].clicks > 0
    /\ all_rows[1].Domain = blocks[2].key

\* C6: a block whose normalized type is not a table type has no table and
\* no sub-row, however many records the domain has.
C6_Gating ==
    \A b \in 1..Len(blocks) :
        normalize_type(blocks[b].type) \notin TableTypes =>
            blocks[b].table = FALSE /\ blocks[b].rows = <<>>

C6_Witness ==
    /\ pc = "done"
    /\ \E b \in 1..Len(blocks) :
          /\ blocks[b].type = "organic"
          /\ blocks[b].table = FALSE
          /\ blocks[b].clicks >= 3
          /\ \E k \in 1..Len(domains) :
                domains[k].name = blocks[b].key /\ Len(domains[k].rows) >= 2

\* The table rows the entry named dom is to show.
HostRows(dom) ==
    LET d == domains[IndexOf(domains, dom)]
    IN  { [company |-> d.rows[j].name[1], end |-> d.rows[j].name[2],
           clicks |-> d.rows[j].clicks, ips |-> d.rows[j].ips] :
          j \in {x \in 1..Len(d.rows) : d.rows[x].name[2] # ""} }

OtherwiseMatching(e, employer_id) ==
    /\ e.isBot = FALSE
    /\ e.browserType # "Unknown"
    /\ e.deviceType # "Unknown"
    /\ e.isFromGoogle = TRUE
    /\ (employer_id # "" => e.employerId = employer_id)

\* C8: an otherwise matching event is counted if and only if
\* MIN_DT <= createdDt < MAX_DT, so the views a query returns number the
\* otherwise matching events of that half-open window.
C8_HalfOpenWindow ==
    \A i \in Tenants :
        tasks[i].st = "done" =>
            SumViews(tasks[i].out, domains_rows[i].Domain)
                = Cardinality({e \in tasks[i].evs :
                                  /\ OtherwiseMatching(e, domains_rows[i].EmployerId)
                                  /\ MIN_DT <= e.createdDt
                                  /\ e.createdDt < MAX_DT})

SheetDomains == {domains_rows[i].Domain : i \in Tenants} \ {""}

LastRow(dom) == CHOOSE i \in Tenants :
                   domains_rows[i].Domain = dom
                   /\ \A j \in (i + 1)..Len(domains_rows) : domains_rows[j].Domain # dom

\* C9 as stated: after aggregation every row with a Domain has an entry
\* carrying that row's type, empty when no record has the Domain, and no
\* entry is named otherwise than by a Domain of the sheet.
C9_Shells ==
    Aggregated =>
        /\ \A i \in Tenants : domains_rows[i].Domain # "" =>
              \E k \in 1..Len(domains) :
                  /\ domains[k].name = domains_rows[i].Domain
                  /\ domains[k].type = domains_rows[i].Domain_Type
                  /\ (\A r \in Range(all_rows) : r.Domain # domains[k].name) =>
                        domains[k].clicks = 0 /\ domains[k].ips = 0 /\ domains[k].rows = <<>>
        /\ \A k \in 1..Len(domains) : domains[k].name \in SheetDomains

\* C9 as amended: the entry carries the type of the last row of the sheet
\* with that Domain.
C9_ShellsLastType ==
    Aggregated =>
        /\ \A i \in Tenants : domains_rows[i].Domain # "" =>
              \E k \in 1..Len(domains) :
                  /\ domains[k].name = domains_rows[i].Domain
                  /\ domains[k].type = domains_rows[LastRow(domains_rows[i].Domain)].Domain_Type
                  /\ (\A r \in Range(all_rows) : r.Domain # domains[k].name) =>
                        domains[k].clicks = 0 /\ domains[k].ips = 0 /\ domains[k].rows = <<>>
        /\ \A k \in 1..Len(domains) : domains[k].name \in SheetDomains
        /\ \A k, l \in 1..Len(domains) : domains[k].name = domains[l].name => k = l

C9_Witness ==
    /\ pc = "done"
    /\ Len(domains) = 1
    /\ domains[1].clicks = 0
    /\ domains[1].rows = <<>>
    /\ \E i, j \in Tenants :
          /\ i < j
          /\ domains_rows[i].Domain = domains_rows[j].Domain
          /\ domains_rows[i].Domain_Type # domains_rows[j].Domain_Type
          /\ domains[1].type = domains_rows[j].Domain_Type

DeleteStep == pc = "delete" /\ pc' = "fanout"
InsertStep == pc = "insert" /\ pc' = "shells"
FoldStep == (pc = "shells" /\ pc' = "fold") \/ (pc = "fold" /\ pc' = "render")

\* C10 as stated: neither the delete, nor the insert, nor a step of the
\* aggregation happens before every task of the fan-out has completed.
C10_AllAfterBarrier ==
    [][(DeleteStep \/ InsertStep \/ FoldStep) => BarrierPassed]_vars

\* C10 as amended: the insert and the steps of the aggregation happen only
\* when every task of the fan-out has completed; the delete happens before
\* the fan-out, when no task has been submitted yet.
C10_InsertFoldAfterBarrier ==
    [][/\ (InsertStep \/ FoldStep) => BarrierPassed
       /\ DeleteStep => (nsub = 0 /\ \A i \in Tenants : tasks[i].st = "new")]_vars

C10_Witness ==
    /\ pc = "render"
    /\ Len(domains_rows) = 2
    /\ stats_col # <<>>
    /\ \A i \in Tenants : tasks[i].st = "done" /\ tasks[i].out # <<>>

====
